---- MODULE Spec2Model ----
(***************************************************************************)
(* SoundCloud Insights: the aggregation pipeline (soundcloud_insights.py,  *)
(* main) and the dashboard's query service (soundcloud_dashboard/app.py).  *)
(*                                                                         *)
(* Strings that the code inspects character by character (track URNs:      *)
(* str.replace, str.endswith; country codes: str.upper) are sequences of   *)
(* one-character strings.  Strings that are only compared or copied        *)
(* (titles, display names, file names) are TLA+ strings.                   *)
(* A remote response is [ok, data]: ok = FALSE is graphql_request          *)
(* returning None (non-200 status or an "errors" list).                    *)
(***************************************************************************)
EXTENDS Integers, Sequences, FiniteSets, TLC

----------------------------------------------------------------------------
(* Bounds of the model *)

\* largest number of top tracks the remote source returns
MaxTracks == 2
\* largest number of records in one aggregate country / city response
MaxAgg == 2

\* how many tracks beyond the per-track cap the source may return
MaxOver == 1

----------------------------------------------------------------------------
(* Python helpers *)

Min(a, b) == IF a <= b THEN a ELSE b

\* s[:n]
Take(s, n) == SubSeq(s, 1, Min(n, Len(s)))

\* s.endswith(t)
EndsWith(s, t) ==
    /\ Len(t) <= Len(s)
    /\ SubSeq(s, Len(s) - Len(t) + 1, Len(s)) = t

\* s.startswith(t)
StartsWith(s, t) ==
    /\ Len(t) <= Len(s)
    /\ SubSeq(s, 1, Len(t)) = t

\* s.replace(old, new), old non-empty: every non-overlapping occurrence,
\* scanning from the left
RECURSIVE Replace(_, _, _)
Replace(s, old, new) ==
    IF s = <<>> THEN <<>>
    ELSE IF StartsWith(s, old)
         THEN new \o Replace(SubSeq(s, Len(old) + 1, Len(s)), old, new)
         ELSE <<Head(s)>> \o Replace(Tail(s), old, new)

LowerLetters ==
    <<"a", "b", "c", "d", "e", "f", "g", "h", "i", "j", "k", "l", "m",
      "n", "o", "p", "q", "r", "s", "t", "u", "v", "w", "x", "y", "z">>

UpperLetters ==
    <<"A", "B", "C", "D", "E", "F", "G", "H", "I", "J", "K", "L", "M",
      "N", "O", "P", "Q", "R", "S", "T", "U", "V", "W", "X", "Y", "Z">>

UpperChar(c) ==
    IF \E k \in DOMAIN LowerLetters : LowerLetters[k] = c
    THEN UpperLetters[CHOOSE k \in DOMAIN LowerLetters : LowerLetters[k] = c]
    ELSE c

\* s.upper()
Upper(s) == [k \in DOMAIN s |-> UpperChar(s[k])]

\* sum(m[k].plays for k)
RECURSIVE SumPlays(_)
SumPlays(s) == IF s = <<>> THEN 0 ELSE Head(s).plays + SumPlays(Tail(s))

\* InsertDesc as an ascending sort followed by reverse() would order: a
\* record goes before the records whose plays equal its own
RECURSIVE InsertDesc_TiesReversed(_, _)
InsertDesc_TiesReversed(sorted, r) ==
    IF sorted = <<>> THEN <<r>>
    ELSE IF Head(sorted).plays > r.plays
         THEN <<Head(sorted)>> \o InsertDesc_TiesReversed(Tail(sorted), r)
         ELSE <<r>> \o sorted

\* list.sort(key=lambda x: x["plays"], reverse=True): stable, descending.
\* Insertion sort: a record goes after every record whose plays are >= its own.
RECURSIVE InsertDesc(_, _)
InsertDesc(sorted, r) ==
    IF sorted = <<>> THEN <<r>>
    ELSE IF Head(sorted).plays >= r.plays
         THEN <<Head(sorted)>> \o InsertDesc(Tail(sorted), r)
         ELSE <<r>> \o sorted

RECURSIVE SortByPlaysDesc(_)
SortByPlaysDesc(s) ==
    IF s = <<>> THEN <<>>
    ELSE InsertDesc(SortByPlaysDesc(SubSeq(s, 1, Len(s) - 1)), s[Len(s)])

\* all sequences over S of length lo..hi
SeqsOf(S, lo, hi) == UNION {[1..n -> S] : n \in lo..hi}

----------------------------------------------------------------------------
(* The remote source: what each GraphQL query returns in one run.  The    *)
(* pools and worlds below are the responses the model explores.           *)

Ok(d) == [ok |-> TRUE, data |-> d]

Failure == [ok |-> FALSE, data |-> <<>>]

\* the "me" object of QUERY_ME
MeObject == [username |-> "artist", followersCount |-> 12, isPro |-> TRUE]

FailureMe == [ok |-> FALSE, data |-> MeObject]

\* one item of topTracksByWindow: {count, track{urn, title, artworkUrl,
\* permalinkUrl, createdAt}}; createdAt <<>> stands for a null/empty date
TrackItem(urn, title, count, created) ==
    [count |-> count,
     track |-> [urn |-> urn, title |-> title, artworkUrl |-> "art",
                permalinkUrl |-> "url", createdAt |-> created]]

Date1 == <<"2", "0", "2", "4", "-", "0", "1", "-", "0", "2", "T", "0", "3">>

\* the tracks the source knows, in the order it returns them
SourceTracks ==
    <<TrackItem(<<"x", "s", "c", ":", "1">>, "Alpha", 9, Date1),
      TrackItem(<<"s", "c", ":", "1">>, "Beta", 7, <<>>),
      TrackItem(<<"s", "c", ":", "2">>, "Gamma", 7, Date1),
      TrackItem(<<"s", "c", ":", "3">>, "Delta", 3, Date1)>>

\* one item of topCountriesByWindow: {count, country{name, countryCode}}
CountryItem(name, code, count) ==
    [count |-> count, country |-> [name |-> name, countryCode |-> code]]

\* one item of topCitiesByWindow: {count, city{name, country{name, countryCode}}}
CityItem(name, cname, code, count) ==
    [count |-> count,
     city |-> [name |-> name,
               country |-> [name |-> cname, countryCode |-> code]]]

US == <<"U", "S">>
CA == <<"C", "A">>
us == <<"u", "s">>

\* all lists of country items of S that name no country code twice (a
\* breakdown has one row per country), in every order
DistinctLists(S) ==
    {m \in SeqsOf(S, 0, Cardinality(S)) :
       \A a, b \in DOMAIN m :
          a # b => m[a].country.countryCode # m[b].country.countryCode}

\* per-track country records
GeoCountryPool ==
    {CountryItem("United States", US, 2), CountryItem("United States", US, 1),
     CountryItem("Canada", CA, 1)}

\* what a per-track country query may return: a failure, or any list of
\* pool records of distinct countries
GeoCountryResponses ==
    {Failure} \cup {Ok(l) : l \in DistinctLists(GeoCountryPool)}

\* country codes as the source may spell them
KeyCountryPool ==
    {CountryItem("United States", US, 2), CountryItem("United States", us, 1),
     CountryItem("Canada", <<"C", "a">>, 3)}

GeoCityList == <<CityItem("Chicago", "United States", US, 2)>>

GeoCityResponses == {Failure, Ok(GeoCityList)}

AggCountryPool ==
    {CountryItem("United States", US, 100), CountryItem("Canada", CA, 50)}

AggCityPool ==
    {CityItem("Chicago", "United States", US, 5),
     CityItem("chicago", "United States", us, 5),
     CityItem("Springfield", "Canada", CA, 3)}

AggCountryList == <<CountryItem("United States", US, 100),
                    CountryItem("Canada", CA, 50)>>

AggCityList == <<CityItem("Chicago", "United States", US, 5)>>

World(m, tt, ac, aci, tc, tci) ==
    [me |-> m, top_tracks |-> tt, agg_countries |-> ac, agg_cities |-> aci,
     track_countries |-> tc, track_cities |-> tci]

\* the first n tracks of the source
FirstTracks(n) == SubSeq(SourceTracks, 1, n)

\* Cross-reference worlds: n tracks, every per-track country response
GeoWorlds ==
    UNION {{World(Ok(MeObject), Ok(FirstTracks(n)), Ok(AggCountryList),
                  Ok(AggCityList), tc, [k \in 1..n |-> Ok(GeoCityList)]) :
              tc \in [1..n -> GeoCountryResponses]} : n \in 1..MaxTracks}

\* Failure worlds: every combination of failing and succeeding calls
FailWorlds ==
    {World(FailureMe, Failure, Failure, Failure, <<>>, <<>>),
     World(Ok(MeObject), Failure, Failure, Failure, <<>>, <<>>),
     World(Ok(MeObject), Ok(<<>>), Failure, Failure, <<>>, <<>>)}
    \cup
    UNION {{World(Ok(MeObject), Ok(FirstTracks(n)), ac, aci, tc, tci) :
              ac \in {Failure, Ok(AggCountryList)},
              aci \in {Failure, Ok(AggCityList)},
              tc \in [1..n -> {Failure, Ok(<<CountryItem("Canada", CA, 1)>>)}],
              tci \in [1..n -> GeoCityResponses]} : n \in 1..MaxTracks}

\* Aggregate worlds: every aggregate country and city list
AggWorlds ==
    {World(Ok(MeObject), Ok(FirstTracks(1)), Ok(ac), Ok(aci),
           <<Ok(<<CountryItem("Canada", CA, 1)>>)>>, <<Ok(GeoCityList)>>) :
       ac \in SeqsOf(AggCountryPool, 0, MaxAgg),
       aci \in SeqsOf(AggCityPool, 0, MaxAgg)}

\* Track-list worlds: every list of source tracks, in any order
UrnWorlds ==
    {World(Ok(MeObject), Ok(tt), Ok(AggCountryList), Ok(AggCityList),
           [k \in DOMAIN tt |-> Ok(<<CountryItem("Canada", CA, 1)>>)],
           [k \in DOMAIN tt |-> Ok(GeoCityList)]) :
       tt \in SeqsOf({SourceTracks[k] : k \in DOMAIN SourceTracks}, 1, MaxTracks)}

\* Country-code worlds: one track, every spelling of its country codes
KeyWorlds ==
    {World(Ok(MeObject), Ok(FirstTracks(1)), Ok(AggCountryList),
           Ok(AggCityList), <<Ok(l)>>, <<Ok(GeoCityList)>>) :
       l \in DistinctLists(KeyCountryPool)}

\* the decimal digits, as characters
DigitChar(d) == <<"0", "1", "2", "3", "4", "5", "6", "7", "8", "9">>[d + 1]

\* a long top-tracks list: n tracks with distinct urns, by falling plays
ManyTracks(n) ==
    [k \in 1..n |->
       TrackItem(<<"t", ":", DigitChar(k \div 10), DigitChar(k % 10)>>,
                 "Track", 100 - k, Date1)]

\* Cap worlds: as many tracks as the per-track cap, one fewer, and more;
\* the second track's queries fail, the tracks after the third have no
\* country to report
CapWorlds ==
    {World(Ok(MeObject), Ok(ManyTracks(n)), Ok(AggCountryList),
           Ok(AggCityList),
           [k \in 1..n |-> IF k = 2 THEN Failure
                            ELSE IF k <= 3
                                 THEN Ok(<<CountryItem("Canada", CA, 1)>>)
                                 ELSE Ok(<<>>)],
           [k \in 1..n |-> IF k = 2 THEN Failure ELSE Ok(GeoCityList)]) :
       n \in 19..(20 + MaxOver)}

\* Tie worlds: every source track is played in one country, once or twice
TieWorlds ==
    {World(Ok(MeObject), Ok(SourceTracks), Ok(AggCountryList),
           Ok(AggCityList), tc,
           [k \in DOMAIN SourceTracks |-> Ok(GeoCityList)]) :
       tc \in [DOMAIN SourceTracks ->
                 {Ok(<<CountryItem("United States", US, 2)>>),
                  Ok(<<CountryItem("United States", US, 1)>>)}]}

Worlds ==
    GeoWorlds \cup FailWorlds \cup AggWorlds \cup UrnWorlds \cup KeyWorlds
       \cup CapWorlds \cup TieWorlds

----------------------------------------------------------------------------
(* soundcloud_dashboard/app.py: the coordinate table as written in the   *)
(* module                                                                *)

\* app.py lines 35-94; a coordinate x is written as the integer 10000 * x
CITY_COORDS ==
       ("Chicago" :> <<418781, -876298>>)
    @@ ("Montreal" :> <<455017, -735673>>)
    @@ ("Hanoi" :> <<210285, 1058542>>)
    @@ ("Toronto" :> <<436532, -793832>>)
    @@ ("Ho Chi Minh City" :> <<108231, 1066297>>)
    @@ ("Washington" :> <<389072, -770369>>)
    @@ ("New York" :> <<407128, -740060>>)
    @@ ("Miami" :> <<257617, -801918>>)
    @@ ("Kyiv" :> <<504501, 305234>>)
    @@ ("Cairo" :> <<300444, 312357>>)
    @@ ("Da Nang" :> <<160544, 1082022>>)
    @@ ("Lviv" :> <<498397, 240297>>)
    @@ ("Gangnam-gu" :> <<375172, 1270473>>)
    @@ ("Denpasar" :> <<-86705, 1152126>>)
    @@ ("Los Angeles" :> <<340522, -1182437>>)
    @@ ("Dnipro" :> <<484647, 350462>>)
    @@ ("Jakarta" :> <<-62088, 1068456>>)
    @@ ("Medan" :> <<35952, 986722>>)
    @@ ("Frankfurt am Main" :> <<501109, 86821>>)
    @@ ("Melbourne" :> <<-378136, 1449631>>)
    @@ ("Minsk" :> <<539006, 275590>>)
    @@ ("Gwanak-gu" :> <<374784, 1269516>>)
    @@ ("Sydney" :> <<-338688, 1512093>>)
    @@ ("Riyadh" :> <<247136, 466753>>)
    @@ ("Warsaw" :> <<522297, 210122>>)
    @@ ("Paris" :> <<488566, 23522>>)
    @@ ("Upland" :> <<340975, -1176484>>)
    @@ ("Wroclaw" :> <<511079, 170385>>)
    @@ ("Chisinau" :> <<470105, 288638>>)
    @@ ("Jeddah" :> <<214858, 391925>>)
    @@ ("Biên Hòa" :> <<109574, 1068426>>)
    @@ ("Pekanbaru" :> <<5071, 1014478>>)
    @@ ("Haiphong" :> <<208449, 1066881>>)
    @@ ("Orlando" :> <<285383, -813792>>)
    @@ ("Kuwait City" :> <<293759, 479774>>)
    @@ ("Rio de Janeiro" :> <<-229068, -431729>>)
    @@ ("Amsterdam" :> <<523676, 49041>>)
    @@ ("Seoul" :> <<375665, 1269780>>)
    @@ ("Brooklyn" :> <<406782, -739442>>)
    @@ ("Ulan Bator" :> <<478864, 1069057>>)
    @@ ("Hải Dương" :> <<209373, 1063146>>)
    @@ ("Dammam" :> <<264207, 500888>>)
    @@ ("Dongjak-gu" :> <<375124, 1269393>>)
    @@ ("Riverside" :> <<339533, -1173962>>)
    @@ ("The Bronx" :> <<408448, -738648>>)
    @@ ("Surabaya" :> <<-72575, 1127521>>)
    @@ ("Lahore" :> <<315204, 743587>>)
    @@ ("Singapore" :> <<13521, 1038198>>)
    @@ ("Buon Ma Thuot" :> <<126667, 1080500>>)
    @@ ("Vilnius" :> <<546872, 252797>>)
    @@ ("London" :> <<515074, -1278>>)
    @@ ("Berlin" :> <<525200, 134050>>)
    @@ ("Tokyo" :> <<356762, 1396503>>)
    @@ ("Bangkok" :> <<137563, 1005018>>)
    @@ ("Mumbai" :> <<190760, 728777>>)
    @@ ("São Paulo" :> <<-235505, -466333>>)
    @@ ("Mexico City" :> <<194326, -991332>>)
    @@ ("Dubai" :> <<252048, 552708>>)

----------------------------------------------------------------------------
(* State *)

VARIABLES
    source,           \* what the remote source answers in this run
    pc,               \* position of main() in soundcloud_insights.py
    calls,            \* remote requests and sleeps issued so far, in order
    me,               \* main: me (unassigned before line 205)
    tracks,           \* main: tracks
    agg_countries,    \* main: agg_countries
    agg_cities,       \* main: agg_cities
    i,                \* main: index of the per-track loop (1-based)
    track_countries,  \* main: track_countries of the current iteration
    tracks_with_geo,  \* main: tracks_with_geo
    country_tracks,   \* main: country_tracks, a dict: entries in insertion order
    bt,               \* build loop: index into tracks_with_geo
    bc,               \* build loop: index into track["countries"]
    json_file,        \* soundcloud_insights.json as the dashboard finds it:
                      \* <<>> (no file) or <<all_data>>
    csv_files,        \* the CSV files written
    svc,              \* dashboard process: "off", or how it was started:
                      \* "main" (python app.py) or "wsgi" (app imported)
    DATA,             \* app.py: DATA
    coords,           \* app.py: the dict CITY_COORDS as the requests find it
    resp              \* the response to the latest request

vars ==
    <<source, pc, calls, me, tracks, agg_countries, agg_cities, i,
      track_countries, tracks_with_geo, country_tracks, bt, bc, json_file,
      csv_files, svc, DATA, coords, resp>>

pipeVars ==
    <<pc, calls, me, tracks, agg_countries, agg_cities, i, track_countries,
      tracks_with_geo, country_tracks, bt, bc, json_file, csv_files>>

svcVars == <<svc, DATA, coords, resp>>

\* app.py line 19: DATA = None
None == [is_none |-> TRUE]

IsNone(d) == "is_none" \in DOMAIN d

\* no request handled yet
NoResponse == [route |-> "none", arg |-> <<>>, status |-> 0, body |-> <<>>]

Init ==
    /\ source \in Worlds
    /\ pc = "auth"
    /\ calls = <<>>
    /\ me = MeObject
    /\ tracks = <<>>
    /\ agg_countries = <<>>
    /\ agg_cities = <<>>
    /\ i = 1
    /\ track_countries = <<>>
    /\ tracks_with_geo = <<>>
    /\ country_tracks = <<>>
    /\ bt = 1
    /\ bc = 1
    /\ json_file = <<>>
    /\ csv_files = {}
    /\ svc = "off"
    /\ DATA = None
    /\ coords = CITY_COORDS
    /\ resp = NoResponse

----------------------------------------------------------------------------
(* soundcloud_insights.py: main.  Every step is taken while the dashboard   *)
(* is not running (svc = "off"): the dashboard reads the file in load_data *)
(* only, so a step of the pipeline after that has no effect on it.         *)

\* the per-track loop runs over tracks[:20]
TRACK_CAP == 20

Call(kind, urn) == [op |-> kind, urn |-> urn]

\* trackUrn of an account-wide query (track_urn=None)
NoUrn == <<>>

Sleep == [op |-> "sleep", urn |-> NoUrn]

\* lines 197-208: identity check
GetMe ==
    /\ svc = "off"
    /\ pc = "auth"
    /\ calls' = Append(calls, Call("me", NoUrn))
    /\ IF ~source.me.ok
       THEN /\ pc' = "aborted"
            /\ me' = me
       ELSE /\ pc' = "top_tracks"
            /\ me' = source.me.data
    /\ UNCHANGED <<source, tracks, agg_countries, agg_cities, i,
                   track_countries, tracks_with_geo, country_tracks, bt, bc,
                   json_file, csv_files, svcVars>>

\* GetTopTracks testing only `not tracks_data`: an empty list goes on
GetTopTracks_EmptyGoesOn ==
    /\ svc = "off"
    /\ pc = "top_tracks"
    /\ calls' = Append(calls, Call("top_tracks", NoUrn))
    /\ IF ~source.top_tracks.ok
       THEN /\ pc' = "aborted"
            /\ tracks' = tracks
       ELSE /\ pc' = "agg_countries"
            /\ tracks' = source.top_tracks.data
    /\ UNCHANGED <<source, me, agg_countries, agg_cities, i, track_countries,
                   tracks_with_geo, country_tracks, bt, bc, json_file,
                   csv_files, svcVars>>

\* lines 210-219: top tracks; an absent or empty list ends the run
GetTopTracks ==
    /\ svc = "off"
    /\ pc = "top_tracks"
    /\ calls' = Append(calls, Call("top_tracks", NoUrn))
    /\ IF ~source.top_tracks.ok \/ source.top_tracks.data = <<>>
       THEN /\ pc' = "aborted"
            /\ tracks' = tracks
       ELSE /\ pc' = "agg_countries"
            /\ tracks' = source.top_tracks.data
    /\ UNCHANGED <<source, me, agg_countries, agg_cities, i, track_countries,
                   tracks_with_geo, country_tracks, bt, bc, json_file,
                   csv_files, svcVars>>

\* lines 224-226
GetAggCountries ==
    /\ svc = "off"
    /\ pc = "agg_countries"
    /\ calls' = Append(calls, Call("countries", NoUrn))
    /\ agg_countries' =
         IF source.agg_countries.ok THEN source.agg_countries.data ELSE <<>>
    /\ pc' = "agg_cities"
    /\ UNCHANGED <<source, me, tracks, agg_cities, i, track_countries,
                   tracks_with_geo, country_tracks, bt, bc, json_file,
                   csv_files, svcVars>>

\* lines 228-236
GetAggCities ==
    /\ svc = "off"
    /\ pc = "agg_cities"
    /\ calls' = Append(calls, Call("cities", NoUrn))
    /\ agg_cities' =
         IF source.agg_cities.ok THEN source.agg_cities.data ELSE <<>>
    /\ tracks_with_geo' = <<>>
    /\ i' = 1
    /\ pc' = "track_countries"
    /\ UNCHANGED <<source, me, tracks, agg_countries, track_countries,
                   country_tracks, bt, bc, json_file, csv_files, svcVars>>

\* the per-track loop running over every track (tracks, not tracks[:20])
LoopTracks_NoCap == tracks

\* tracks[:20]
LoopTracks == Take(tracks, TRACK_CAP)

\* GetTrackCountries sleeping only after a country query that succeeded
GetTrackCountries_SleepOnSuccess ==
    /\ svc = "off"
    /\ pc = "track_countries"
    /\ i <= Len(LoopTracks)
    /\ calls' = calls \o
         (IF source.track_countries[i].ok
          THEN <<Call("countries", LoopTracks[i].track.urn), Sleep>>
          ELSE <<Call("countries", LoopTracks[i].track.urn)>>)
    /\ track_countries' =
         IF source.track_countries[i].ok /\ source.track_countries[i].data # <<>>
         THEN source.track_countries[i].data
         ELSE <<>>
    /\ pc' = "track_cities"
    /\ UNCHANGED <<source, me, tracks, agg_countries, agg_cities, i,
                   tracks_with_geo, country_tracks, bt, bc, json_file,
                   csv_files, svcVars>>

\* lines 239-253: the country query of iteration i, then the first sleep
GetTrackCountries ==
    /\ svc = "off"
    /\ pc = "track_countries"
    /\ i <= Len(LoopTracks)
    /\ calls' = calls \o <<Call("countries", LoopTracks[i].track.urn), Sleep>>
    /\ track_countries' =
         IF source.track_countries[i].ok /\ source.track_countries[i].data # <<>>
         THEN source.track_countries[i].data
         ELSE <<>>
    /\ pc' = "track_cities"
    /\ UNCHANGED <<source, me, tracks, agg_countries, agg_cities, i,
                   tracks_with_geo, country_tracks, bt, bc, json_file,
                   csv_files, svcVars>>

\* lines 270-277
CountryRecord(c) ==
    [name |-> c.country.name, code |-> c.country.countryCode,
     plays |-> c.count]

\* lines 278-286
CityRecord(c) ==
    [name |-> c.city.name, country |-> c.city.country.name,
     country_code |-> c.city.country.countryCode, plays |-> c.count]

\* TrackGeo recording both lists empty as soon as one of them is empty
TrackGeo_AllOrNothing(track_item, countries, cities) ==
    [urn |-> track_item.track.urn,
     title |-> track_item.track.title,
     plays |-> track_item.count,
     url |-> track_item.track.permalinkUrl,
     artwork |-> track_item.track.artworkUrl,
     created_at |-> Take(track_item.track.createdAt, 10),
     countries |-> IF cities = <<>> THEN <<>>
                   ELSE [k \in DOMAIN countries |->
                           CountryRecord(countries[k])],
     cities |-> IF countries = <<>> THEN <<>>
                ELSE [k \in DOMAIN cities |-> CityRecord(cities[k])]]

\* lines 263-287: the record appended to tracks_with_geo
TrackGeo(track_item, countries, cities) ==
    [urn |-> track_item.track.urn,
     title |-> track_item.track.title,
     plays |-> track_item.count,
     url |-> track_item.track.permalinkUrl,
     artwork |-> track_item.track.artworkUrl,
     created_at |-> Take(track_item.track.createdAt, 10),
     countries |-> [k \in DOMAIN countries |-> CountryRecord(countries[k])],
     cities |-> [k \in DOMAIN cities |-> CityRecord(cities[k])]]

\* the city list recorded for a city response (lines 256-259)
TrackCities(r) == IF r.ok /\ r.data # <<>> THEN r.data ELSE <<>>

\* lines 255-290: the city query of iteration i, the append, the second
\* sleep; after the last iteration, line 294 starts the build
GetTrackCities ==
    /\ svc = "off"
    /\ pc = "track_cities"
    /\ calls' = calls \o <<Call("cities", LoopTracks[i].track.urn), Sleep>>
    /\ tracks_with_geo' =
         Append(tracks_with_geo,
                TrackGeo(LoopTracks[i], track_countries,
                         TrackCities(source.track_cities[i])))
    /\ i' = i + 1
    /\ IF i + 1 <= Len(LoopTracks)
       THEN /\ pc' = "track_countries"
            /\ UNCHANGED <<country_tracks, bt, bc>>
       ELSE /\ pc' = "build"
            /\ country_tracks' = <<>>
            /\ bt' = 1
            /\ bc' = 1
    /\ UNCHANGED <<source, me, tracks, agg_countries, agg_cities,
                   track_countries, json_file, csv_files, svcVars>>


\* position of the entry for code in country_tracks, 0 when absent
\* (line 298: code not in country_tracks)
IndexOfCode(ct, code) ==
    IF \E k \in DOMAIN ct : ct[k].code = code
    THEN CHOOSE k \in DOMAIN ct : ct[k].code = code
    ELSE 0

\* lines 299-304: the entry created for a new code
NewEntry(country) ==
    [name |-> country.name, code |-> country.code, total_plays |-> 0,
     tracks |-> <<>>]

\* AddToEntry with line 305 left out: the record is appended, the total is
\* not increased
AddToEntry_NoTotal(entry, track, country) ==
    [entry EXCEPT
       !.tracks = Append(@, [title |-> track.title, urn |-> track.urn,
                             plays |-> country.plays])]

\* lines 305-310: the entry after one breakdown of one track is added
AddToEntry(entry, track, country) ==
    [entry EXCEPT
       !.total_plays = @ + country.plays,
       !.tracks = Append(@, [title |-> track.title, urn |-> track.urn,
                             plays |-> country.plays])]

\* lines 297-310: one iteration of the inner loop
FoldCountry(ct, track, country) ==
    LET ct1 == IF IndexOfCode(ct, country.code) = 0
               THEN Append(ct, NewEntry(country))
               ELSE ct
        k == IndexOfCode(ct1, country.code)
    IN [ct1 EXCEPT ![k] = AddToEntry(@, track, country)]

\* lines 297-310, one inner iteration
BuildFold ==
    /\ svc = "off"
    /\ pc = "build"
    /\ bt <= Len(tracks_with_geo)
    /\ bc <= Len(tracks_with_geo[bt].countries)
    /\ country_tracks' =
         FoldCountry(country_tracks, tracks_with_geo[bt],
                     tracks_with_geo[bt].countries[bc])
    /\ bc' = bc + 1
    /\ UNCHANGED <<source, pc, calls, me, tracks, agg_countries, agg_cities,
                   i, track_countries, tracks_with_geo, bt, json_file,
                   csv_files, svcVars>>

\* lines 295-296: the inner loop of one track is exhausted
BuildNextTrack ==
    /\ svc = "off"
    /\ pc = "build"
    /\ bt <= Len(tracks_with_geo)
    /\ bc > Len(tracks_with_geo[bt].countries)
    /\ bt' = bt + 1
    /\ bc' = 1
    /\ UNCHANGED <<source, pc, calls, me, tracks, agg_countries, agg_cities,
                   i, track_countries, tracks_with_geo, country_tracks,
                   json_file, csv_files, svcVars>>

\* lines 312-314: sort the tracks of every country
SortAll(ct) ==
    [k \in DOMAIN ct |-> [ct[k] EXCEPT !.tracks = SortByPlaysDesc(@)]]

SortCountryTracks ==
    /\ svc = "off"
    /\ pc = "build"
    /\ bt > Len(tracks_with_geo)
    /\ country_tracks' = SortAll(country_tracks)
    /\ pc' = "save"
    /\ UNCHANGED <<source, calls, me, tracks, agg_countries, agg_cities, i,
                   track_countries, tracks_with_geo, bt, bc, json_file,
                   csv_files, svcVars>>

\* RankedCountries with the rank left 0-based (i instead of i + 1)
RankedCountries_ZeroBased(agg) ==
    [k \in DOMAIN agg |->
       [rank |-> k - 1, name |-> agg[k].country.name,
        code |-> agg[k].country.countryCode, plays |-> agg[k].count]]

\* lines 322-330: aggregate countries with their ranks (enumerate is
\* 0-based and the rank is i + 1: the 1-based position)
RankedCountries(agg) ==
    [k \in DOMAIN agg |->
       [rank |-> k, name |-> agg[k].country.name,
        code |-> agg[k].country.countryCode, plays |-> agg[k].count]]

\* lines 331-340
RankedCities(agg) ==
    [k \in DOMAIN agg |->
       [rank |-> k, name |-> agg[k].city.name,
        country |-> agg[k].city.country.name,
        country_code |-> agg[k].city.country.countryCode,
        plays |-> agg[k].count]]

\* lines 319-344: all_data
AllData(user, aggc, aggci, twg, ct) ==
    [user |-> user,
     aggregate |-> [countries |-> RankedCountries(aggc),
                    cities |-> RankedCities(aggci)],
     tracks |-> twg,
     country_tracks |-> ct]

\* lines 346-348: json.dump keeps the dict's insertion order
SaveJson ==
    /\ svc = "off"
    /\ pc = "save"
    /\ json_file' = <<AllData(me, agg_countries, agg_cities, tracks_with_geo,
                              country_tracks)>>
    /\ pc' = "csv"
    /\ UNCHANGED <<source, calls, me, tracks, agg_countries, agg_cities, i,
                   track_countries, tracks_with_geo, country_tracks, bt, bc,
                   csv_files, svcVars>>

\* lines 350-370
SaveCsv ==
    /\ svc = "off"
    /\ pc = "csv"
    /\ csv_files' = {"soundcloud_countries.csv", "soundcloud_cities.csv",
                     "soundcloud_top_tracks.csv"}
    /\ pc' = "done"
    /\ UNCHANGED <<source, calls, me, tracks, agg_countries, agg_cities, i,
                   track_countries, tracks_with_geo, country_tracks, bt, bc,
                   json_file, svcVars>>

\* lines 294-314 as a function of tracks_with_geo
RECURSIVE FoldCountries(_, _, _)
FoldCountries(ct, track, countries) ==
    IF countries = <<>> THEN ct
    ELSE FoldCountries(FoldCountry(ct, track, Head(countries)), track,
                       Tail(countries))

RECURSIVE FoldTracks(_, _)
FoldTracks(ct, twg) ==
    IF twg = <<>> THEN ct
    ELSE FoldTracks(FoldCountries(ct, Head(twg), Head(twg).countries),
                    Tail(twg))

CrossReference(twg) == SortAll(FoldTracks(<<>>, twg))

----------------------------------------------------------------------------
(* soundcloud_dashboard/app.py *)

\* line 31: the snapshot substituted when the file is missing
EmptySnapshot ==
    [tracks |-> <<>>, aggregate |-> [countries |-> <<>>, cities |-> <<>>],
     country_tracks |-> <<>>]

\* load_data without its else branch: DATA stays None when the file is
\* missing
LoadedData_NoFallback(file) == IF file # <<>> THEN file[1] ELSE None

\* lines 21-31: the snapshot load_data leaves in DATA, given the file.
\* json.load reads back what json.dump wrote: dicts in their key order,
\* lists, strings and integers unchanged.
LoadedData(file) == IF file # <<>> THEN file[1] ELSE EmptySnapshot

\* lines 216-220: python app.py runs load_data, then serves.  The dashboard
\* is started before the pipeline has run or after it has ended.
LoadData ==
    /\ svc = "off"
    /\ pc \in {"auth", "aborted", "done"}
    /\ DATA' = LoadedData(json_file)
    /\ svc' = "main"
    /\ UNCHANGED <<source, pipeVars, coords, resp>>

\* lines 16-19 and 216: the module imported and `app` served by a WSGI
\* server (flask run, gunicorn app:app); __main__ does not run, nothing
\* calls load_data
ServeImported ==
    /\ svc = "off"
    /\ pc \in {"auth", "aborted", "done"}
    /\ svc' = "wsgi"
    /\ UNCHANGED <<source, pipeVars, DATA, coords, resp>>

Response(route, arg, status, body) ==
    [route |-> route, arg |-> arg, status |-> status, body |-> body]

\* DATA.get(...) with DATA = None
Raises(route, arg) == Response(route, arg, 500, "AttributeError")

NoArg == <<>>

\* lines 103-119
api_summary(D) ==
    IF IsNone(D)
    THEN Response("summary", NoArg, 200, [error |-> "No data loaded"])
    ELSE Response("summary", NoArg, 200,
           [total_plays |-> SumPlays(D.tracks),
            total_tracks |-> Len(D.tracks),
            total_countries |-> Len(D.aggregate.countries),
            total_cities |-> Len(D.aggregate.cities),
            top_track |-> IF D.tracks # <<>> THEN D.tracks[1].title ELSE "N/A",
            top_track_plays |-> IF D.tracks # <<>> THEN D.tracks[1].plays ELSE 0,
            username |-> IF "user" \in DOMAIN D THEN D.user.username
                         ELSE "unknown"])

\* lines 122-126
api_tracks(D) ==
    IF IsNone(D) THEN Raises("tracks", NoArg)
    ELSE Response("tracks", NoArg, 200, D.tracks)

\* line 136: the test of the loop
TrackMatches(urn, track_urn) == urn = track_urn \/ EndsWith(urn, track_urn)

\* lines 129-139
api_track(D, id) ==
    LET track_urn == Replace(id, <<"%", "3", "A">>, <<":">>)
    IN IF IsNone(D) THEN Raises("track", id)
       ELSE LET hits == {k \in DOMAIN D.tracks :
                           TrackMatches(D.tracks[k].urn, track_urn)}
            IN IF hits = {}
               THEN Response("track", id, 404, [error |-> "Track not found"])
               ELSE Response("track", id, 200,
                      D.tracks[CHOOSE k \in hits : \A h \in hits : k <= h])

\* lines 142-146
api_countries(D) ==
    IF IsNone(D) THEN Raises("countries", NoArg)
    ELSE Response("countries", NoArg, 200, D.aggregate.countries)

\* line 152: the key looked up
CountryKey(country_code) == Upper(country_code)

\* lines 149-157
api_country(D, country_code) ==
    IF IsNone(D) THEN Raises("country", country_code)
    ELSE LET k == IndexOfCode(D.country_tracks, CountryKey(country_code))
         IN IF k # 0
            THEN Response("country", country_code, 200, D.country_tracks[k])
            ELSE Response("country", country_code, 404,
                          [error |-> "Country not found"])

RECURSIVE CitiesOf(_, _)
CitiesOf(cities, country_code) ==
    IF cities = <<>> THEN <<>>
    ELSE (IF Upper(Head(cities).country_code) = Upper(country_code)
          THEN <<Head(cities)>> ELSE <<>>)
         \o CitiesOf(Tail(cities), country_code)

\* lines 160-166
api_country_cities(D, country_code) ==
    IF IsNone(D) THEN Raises("country_cities", country_code)
    ELSE Response("country_cities", country_code, 200,
                  CitiesOf(D.aggregate.cities, country_code))

\* WithCoords never finding the city in the table
WithCoords_NoMatch(city) == city

\* lines 177-181: the copy of a city, with its coordinates when it has any
WithCoords(city) ==
    IF city.name \in DOMAIN coords
    THEN city @@ [lat |-> coords[city.name][1],
                  lng |-> coords[city.name][2]]
    ELSE city

\* the loop of api_cities with city_copy = city: lines 180-181 then write
\* lat and lng into the snapshot's own record
CityAfterCopy_Aliased(city) == WithCoords(city)

\* lines 177-181: the snapshot's city record after its loop iteration.
\* city.copy() is a dict of its own, the two assignments go to it
CityAfterCopy(city) == city

\* lines 169-184: DATA after api_cities has run
DataAfterCities(D) ==
    IF IsNone(D) THEN D
    ELSE [D EXCEPT !.aggregate.cities =
                      [k \in DOMAIN @ |-> CityAfterCopy(@[k])]]

\* lines 169-184
api_cities(D) ==
    IF IsNone(D) THEN Raises("cities", NoArg)
    ELSE Response("cities", NoArg, 200,
           [k \in DOMAIN D.aggregate.cities |->
              WithCoords(D.aggregate.cities[k])])

\* lines 196-205
RECURSIVE MapCities(_)
MapCities(cities) ==
    IF cities = <<>> THEN <<>>
    ELSE (IF Head(cities).name \in DOMAIN coords
          THEN <<[name |-> Head(cities).name,
                  country |-> Head(cities).country,
                  country_code |-> Head(cities).country_code,
                  plays |-> Head(cities).plays,
                  lat |-> coords[Head(cities).name][1],
                  lng |-> coords[Head(cities).name][2]]>>
          ELSE <<>>)
         \o MapCities(Tail(cities))

\* line 208: {c['code']: c['plays'] for c in countries}; a later record of
\* the same code overwrites an earlier one
CountryPlays(countries) ==
    [code \in {countries[k].code : k \in DOMAIN countries} |->
       LET last == CHOOSE k \in DOMAIN countries :
                     /\ countries[k].code = code
                     /\ \A h \in DOMAIN countries :
                          countries[h].code = code => h <= k
       IN countries[last].plays]

\* lines 187-213
api_map_data(D) ==
    IF IsNone(D) THEN Raises("map_data", NoArg)
    ELSE Response("map_data", NoArg, 200,
           [cities |-> MapCities(D.aggregate.cities),
            country_plays |-> CountryPlays(D.aggregate.countries)])

\* the identifiers requested of /api/track/<track_urn>
TrackIds ==
    {<<"s", "c", ":", "1">>, <<"x", "s", "c", ":", "1">>, <<"1">>,
     <<"s", "c", "%", "3", "A", "2">>, <<"9">>}

\* the codes requested of /api/country/<country_code>[/cities]
CodeQueries == {US, us, <<"c", "a">>, <<"F", "R">>}

\* a handler that only reads DATA and CITY_COORDS and returns r
Serve(r) ==
    /\ svc # "off"
    /\ resp' = r
    /\ UNCHANGED <<source, pipeVars, svc, DATA, coords>>

GetSummary == Serve(api_summary(DATA))

GetTracks == Serve(api_tracks(DATA))

GetTrack == \E id \in TrackIds : Serve(api_track(DATA, id))

GetCountries == Serve(api_countries(DATA))

GetCountry == \E q \in CodeQueries : Serve(api_country(DATA, q))

GetCountryCities == \E q \in CodeQueries : Serve(api_country_cities(DATA, q))

\* api_cities also runs lines 177-181 on every city of the snapshot
GetCities ==
    /\ svc # "off"
    /\ resp' = api_cities(DATA)
    /\ DATA' = DataAfterCities(DATA)
    /\ UNCHANGED <<source, pipeVars, svc, coords>>

GetMapData == Serve(api_map_data(DATA))

----------------------------------------------------------------------------

\* one step of main()
PipelineNext ==
    \/ GetMe
    \/ GetTopTracks
    \/ GetAggCountries
    \/ GetAggCities
    \/ GetTrackCountries
    \/ GetTrackCities
    \/ BuildFold
    \/ BuildNextTrack
    \/ SortCountryTracks
    \/ SaveJson
    \/ SaveCsv

Next ==
    \/ GetMe
    \/ GetTopTracks
    \/ GetAggCountries
    \/ GetAggCities
    \/ GetTrackCountries
    \/ GetTrackCities
    \/ BuildFold
    \/ BuildNextTrack
    \/ SortCountryTracks
    \/ SaveJson
    \/ SaveCsv
    \/ LoadData
    \/ ServeImported
    \/ GetSummary
    \/ GetTracks
    \/ GetTrack
    \/ GetCountries
    \/ GetCountry
    \/ GetCountryCities
    \/ GetCities
    \/ GetMapData

Spec == Init /\ [][Next]_vars

----------------------------------------------------------------------------
(* Properties *)

\* the identifier api_track compares with the URNs (line 133)
Decoded(id) == Replace(id, <<"%", "3", "A">>, <<":">>)

\* C1: trackByUrn answers with a track whose urn equals the identifier
\* whenever some track's urn equals it; with a track whose urn ends with the
\* identifier only when no urn equals it; and with NotFound only when no urn
\* equals it or ends with it.
C1_ExactMatchFirst ==
    (svc # "off" /\ ~IsNone(DATA) /\ resp.route = "track") =>
      LET id == Decoded(resp.arg)
          exact == {k \in DOMAIN DATA.tracks : DATA.tracks[k].urn = id}
          suffix == {k \in DOMAIN DATA.tracks :
                       EndsWith(DATA.tracks[k].urn, id)}
      IN /\ exact # {} => (resp.status = 200 /\ resp.body.urn = id)
         /\ (exact = {} /\ suffix # {}) =>
              (resp.status = 200 /\ EndsWith(resp.body.urn, id))
         /\ (exact = {} /\ suffix = {}) => resp.status = 404

\* C2: at every point of the build (after each breakdown of each track is
\* folded in, after the sort, and in the written file) every entry of
\* country_tracks has total_plays equal to the sum of the plays of its
\* tracks list.
TotalsConsistent(ct) ==
    \A k \in DOMAIN ct : ct[k].total_plays = SumPlays(ct[k].tracks)

C2_TotalIsSumOfTracks ==
    /\ TotalsConsistent(country_tracks)
    /\ json_file # <<>> => TotalsConsistent(json_file[1].country_tracks)

\* C2 witness: the sorted index holds a country fed by two tracks, one of
\* which contributes to several countries
C2_Witness ==
    /\ pc = "save"
    /\ \E k \in DOMAIN country_tracks : Len(country_tracks[k].tracks) >= 2
    /\ \E t \in DOMAIN tracks_with_geo :
         Len(tracks_with_geo[t].countries) >= 2

\* the list twg in the order p
Permuted(twg, p) == [k \in DOMAIN twg |-> twg[p[k]]]

\* no two records of one country's track list have equal plays
NoTies(ct) ==
    \A k \in DOMAIN ct :
      \A a, b \in DOMAIN ct[k].tracks :
         a # b => ct[k].tracks[a].plays # ct[k].tracks[b].plays

\* C3: the Cross-Reference Builder gives the same output (the same entries
\* in the same serialized order, with the same name, total and tracks) for
\* every order of the tracks, provided no country's track list has a tie;
\* and building twice from the same list gives the same output.
C3_OrderIndependent ==
    pc = "save" =>
      /\ CrossReference(tracks_with_geo) = country_tracks
      /\ NoTies(country_tracks) =>
           \A p \in Permutations(DOMAIN tracks_with_geo) :
              CrossReference(Permuted(tracks_with_geo, p)) = country_tracks

\* C4: a failed identity check ends the run after that one call; a top-tracks
\* fetch that fails or returns no track ends it after that second call; the
\* ended run takes no further step and has written no file.
NoTopTracks == ~source.top_tracks.ok \/ source.top_tracks.data = <<>>

C4_TerminatingFailures ==
    /\ (~source.me.ok /\ pc # "auth") =>
         (pc = "aborted" /\ calls = <<Call("me", NoUrn)>>)
    /\ (source.me.ok /\ NoTopTracks /\ pc \notin {"auth", "top_tracks"}) =>
         (pc = "aborted"
          /\ calls = <<Call("me", NoUrn), Call("top_tracks", NoUrn)>>)
    /\ pc = "aborted" =>
         (json_file = <<>> /\ csv_files = {} /\ ~ENABLED PipelineNext)

\* C4 witness: the run ended because the source returned zero tracks
C4_Witness ==
    /\ pc = "aborted"
    /\ source.me.ok
    /\ source.top_tracks.ok
    /\ source.top_tracks.data = <<>>

\* the list a per-track response is recorded as
RecordedCountries(r) ==
    IF r.ok THEN [k \in DOMAIN r.data |-> CountryRecord(r.data[k])] ELSE <<>>

RecordedCities(r) ==
    IF r.ok THEN [k \in DOMAIN r.data |-> CityRecord(r.data[k])] ELSE <<>>

C6_AnsweredFromSnapshot ==
    /\ svc # "off" => ~IsNone(DATA)
    /\ resp.status # 500

\* the summary of the empty snapshot
EmptySummary ==
    [total_plays |-> 0, total_tracks |-> 0, total_countries |-> 0,
     total_cities |-> 0, top_track |-> "N/A", top_track_plays |-> 0,
     username |-> "unknown"]

\* C7: after load_data has run with no snapshot file, DATA is the empty
\* snapshot and summary() answers with zero counts and the no-data
\* placeholders (top track "N/A", username "unknown"), not with the error
\* body.
C7_MissingSnapshot ==
    (svc = "main" /\ json_file = <<>>) =>
      /\ DATA = EmptySnapshot
      /\ resp.route = "summary" =>
           (resp.status = 200 /\ resp.body = EmptySummary)

\* C7 witness: summary() answered after a start without a file
C7_Witness == svc = "main" /\ json_file = <<>> /\ resp.route = "summary"

\* the fields of an aggregate city record of the snapshot
CityFields == {"rank", "name", "country", "country_code", "plays"}

\* C8: mapData().cities holds exactly the aggregate cities whose name is a
\* key of CITY_COORDS, in source order; allCities() holds every aggregate
\* city once, in source order, with lat and lng exactly when its name is a
\* key of CITY_COORDS.
C8_Coordinates ==
    /\ (resp.route = "map_data" /\ resp.status = 200) =>
         LET cities == DATA.aggregate.cities
             keep == {k \in DOMAIN cities : cities[k].name \in DOMAIN CITY_COORDS}
             out == resp.body.cities
         IN /\ Len(out) = Cardinality(keep)
            /\ \A j \in DOMAIN out :
                 \E k \in keep :
                    /\ Cardinality({h \in keep : h <= k}) = j
                    /\ out[j].name = cities[k].name
                    /\ out[j].plays = cities[k].plays
                    /\ out[j].lat = CITY_COORDS[cities[k].name][1]
                    /\ out[j].lng = CITY_COORDS[cities[k].name][2]
    /\ (resp.route = "cities" /\ resp.status = 200) =>
         LET cities == DATA.aggregate.cities
             out == resp.body
         IN /\ Len(out) = Len(cities)
            /\ \A k \in DOMAIN cities :
                 /\ \A f \in CityFields : out[k][f] = cities[k][f]
                 /\ IF cities[k].name \in DOMAIN CITY_COORDS
                    THEN /\ DOMAIN out[k] = CityFields \cup {"lat", "lng"}
                         /\ out[k].lat = CITY_COORDS[cities[k].name][1]
                         /\ out[k].lng = CITY_COORDS[cities[k].name][2]
                    ELSE DOMAIN out[k] = CityFields

\* C8 witness: allCities() answered for a snapshot with a city of the table
\* and a city that is not in it
C8_Witness ==
    /\ resp.route = "cities"
    /\ resp.status = 200
    /\ \E k \in DOMAIN resp.body : "lat" \in DOMAIN resp.body[k]
    /\ \E k \in DOMAIN resp.body : "lat" \notin DOMAIN resp.body[k]

\* a and b are equal ignoring letter case
EqualIgnoringCase(a, b) == Upper(a) = Upper(b)

\* C9: countryDetail(q) answers with the entry stored under k for every key
\* k of country_tracks that equals q ignoring case, and with NotFound only
\* when no key equals q ignoring case.
C9_CaseInsensitive ==
    (resp.route = "country" /\ resp.status # 500) =>
      LET ct == DATA.country_tracks
      IN /\ \A k \in DOMAIN ct :
              EqualIgnoringCase(ct[k].code, resp.arg) =>
                (resp.status = 200 /\ resp.body = ct[k])
         /\ resp.status = 404 =>
              \A k \in DOMAIN ct : ~EqualIgnoringCase(ct[k].code, resp.arg)

\* the ranks of a ranked list are 1..n, each used once
RanksOnce(l) ==
    /\ \A k \in DOMAIN l : l[k].rank \in 1..Len(l)
    /\ \A a, b \in DOMAIN l : a # b => l[a].rank # l[b].rank

\* a lower rank never has fewer plays
RankedByPlays(l) ==
    \A a, b \in DOMAIN l : l[a].rank < l[b].rank => l[a].plays >= l[b].plays

\* C10 as claimed: in the written snapshot the ranks are 1..n, each once,
\* and follow descending plays, for every list the source returns.
C10_RanksDescending ==
    json_file # <<>> =>
      /\ RanksOnce(json_file[1].aggregate.countries)
      /\ RanksOnce(json_file[1].aggregate.cities)
      /\ RankedByPlays(json_file[1].aggregate.countries)
      /\ RankedByPlays(json_file[1].aggregate.cities)

\* the source list is in non-increasing order of count
SourceDescending(agg) ==
    \A a, b \in DOMAIN agg : a < b => agg[a].count >= agg[b].count

\* the ranked list numbers the source list in its own order
RanksInSourceOrder(l, agg) ==
    /\ Len(l) = Len(agg)
    /\ \A k \in DOMAIN l : l[k].rank = k /\ l[k].plays = agg[k].count

\* C10 amended: in the written snapshot the ranks are 1..n, each once, and
\* number the records in the order the source returned them; they follow
\* descending plays when the source list is in non-increasing order.
C10_RanksInSourceOrder ==
    json_file # <<>> =>
      LET countries == json_file[1].aggregate.countries
          cities == json_file[1].aggregate.cities
      IN /\ RanksOnce(countries)
         /\ RanksOnce(cities)
         /\ RanksInSourceOrder(countries, agg_countries)
         /\ RanksInSourceOrder(cities, agg_cities)
         /\ countries # <<>> => countries[1].name = agg_countries[1].country.name
         /\ SourceDescending(agg_countries) => RankedByPlays(countries)
         /\ SourceDescending(agg_cities) => RankedByPlays(cities)

\* C10 witness: a written snapshot with two aggregate countries of different
\* plays, returned in descending order
C10_Witness ==
    /\ json_file # <<>>
    /\ Len(json_file[1].aggregate.countries) = 2
    /\ json_file[1].aggregate.countries[1].plays >
         json_file[1].aggregate.countries[2].plays

----------------------------------------------------------------------------
\* the remote requests of a log, without the sleeps
RemoteCalls(log) == SelectSeq(log, LAMBDA c : c.op # "sleep")

\* a per-track request: a country or city query that names a track
IsTrackCall(c) == c.op \in {"countries", "cities"} /\ c.urn # NoUrn

\* between any two per-track requests of the log there is a sleep
CooledDown(log) ==
    \A k \in DOMAIN log : \A j \in DOMAIN log :
       (k < j /\ IsTrackCall(log[k]) /\ IsTrackCall(log[j]))
          => \E m \in (k + 1)..(j - 1) : log[m] = Sleep

\* a step only extends the log, by at most one remote request, and the
\* request's answer is consumed by the step that issues it
OneRequestAtATime ==
    /\ Len(calls') >= Len(calls)
    /\ SubSeq(calls', 1, Len(calls)) = calls
    /\ Len(RemoteCalls(calls')) <= Len(RemoteCalls(calls)) + 1

\* C11: in every run a cooldown (sleep) lies between any two consecutive
\* per-track remote calls, whether or not the earlier call succeeded, and
\* the calls are issued strictly one after another: no step issues a second
\* request while one is outstanding.
C11_CooldownOrdering == [][CooledDown(calls') /\ OneRequestAtATime]_vars

\* a finished run over two tracks whose first track's queries both failed
C11_Witness ==
    /\ pc = "done"
    /\ Len(tracks_with_geo) >= 2
    /\ ~source.track_countries[1].ok
    /\ ~source.track_cities[1].ok
    /\ Len(SelectSeq(calls, LAMBDA c : c = Sleep)) = 2 * Len(tracks_with_geo)

----------------------------------------------------------------------------
\* the urns of the log's per-track requests of one kind, in issue order
FetchedUrns(log, kind) ==
    LET sel == SelectSeq(log, LAMBDA c : c.op = kind /\ c.urn # NoUrn)
    IN  [k \in DOMAIN sel |-> sel[k].urn]

\* the urns of the first min(N, 20) of the N tracks the source returns
CappedUrns ==
    LET tt == source.top_tracks.data
        n  == Min(Len(tt), 20)
    IN  [k \in 1..n |-> tt[k].track.urn]

IsPrefix(a, b) == Len(a) <= Len(b) /\ SubSeq(b, 1, Len(a)) = a

\* the per-track fetches follow the source order and never leave the first
\* min(N, 20) tracks; once the loop is over each of those tracks has had
\* exactly one country fetch and one city fetch, and a written snapshot
\* lists exactly those tracks in that order
FetchedOncePerCappedTrack ==
    /\ IsPrefix(FetchedUrns(calls, "countries"), CappedUrns)
    /\ IsPrefix(FetchedUrns(calls, "cities"), CappedUrns)
    /\ pc \in {"build", "save", "csv", "done"} =>
         /\ FetchedUrns(calls, "countries") = CappedUrns
         /\ FetchedUrns(calls, "cities") = CappedUrns
    /\ json_file # <<>> =>
         [k \in DOMAIN json_file[1].tracks |-> json_file[1].tracks[k].urn]
            = CappedUrns

\* C12 as stated: per-track country and city fetches are issued exactly once
\* for each of the first min(N, 20) tracks in source order and for no other
\* track, the snapshot lists exactly those tracks in that order, and the run
\* makes at most 2 x 20 + 2 + 1 = 43 remote calls.
C12_BoundedFetching ==
    /\ FetchedOncePerCappedTrack
    /\ Len(RemoteCalls(calls)) <= 2 * 20 + 2 + 1

\* C12, amended: the same, with the top-tracks call counted: the run makes
\* at most 2 x 20 + 2 (aggregate) + 1 (identity) + 1 (top tracks) = 44
\* remote calls.
C12_BoundedFetchingWithTopTracks ==
    /\ FetchedOncePerCappedTrack
    /\ Len(RemoteCalls(calls)) <= 2 * 20 + 2 + 1 + 1

\* a finished run whose source returned more than 20 tracks
C12_Witness ==
    /\ pc = "done"
    /\ Len(source.top_tracks.data) > 20
    /\ Len(json_file[1].tracks) = 20
    /\ Len(RemoteCalls(calls)) = 44

----------------------------------------------------------------------------
\* the records of one track for one country code
RecordsOf(track, code) ==
    LET cs == SelectSeq(track.countries, LAMBDA c : c.code = code)
    IN  [k \in DOMAIN cs |->
           [title |-> track.title, urn |-> track.urn, plays |-> cs[k].plays]]

\* the records of one country code in the order their tracks were processed
RECURSIVE Processed(_, _)
Processed(twg, code) ==
    IF twg = <<>> THEN <<>>
    ELSE RecordsOf(Head(twg), code) \o Processed(Tail(twg), code)

NonIncreasing(l) ==
    \A a, b \in DOMAIN l : a < b => l[a].plays >= l[b].plays

\* the records with equal plays stand in l as they stand in ref
TiesInOrder(l, ref) ==
    \A p \in {ref[k].plays : k \in DOMAIN ref} :
       SelectSeq(l, LAMBDA x : x.plays = p)
          = SelectSeq(ref, LAMBDA x : x.plays = p)

\* C13: in every written snapshot each country's tracks list is sorted in
\* non-increasing order of plays, and its records with equal plays keep the
\* order in which their tracks were processed (the sort is stable).
C13_StableDescending ==
    json_file # <<>> =>
       \A k \in DOMAIN json_file[1].country_tracks :
          LET e == json_file[1].country_tracks[k]
              ref == Processed(json_file[1].tracks, e.code)
          IN  /\ Len(e.tracks) = Len(ref)
              /\ NonIncreasing(e.tracks)
              /\ TiesInOrder(e.tracks, ref)

\* a written snapshot with a country whose list the sort reordered and in
\* which records of different tracks tie
C13_Witness ==
    /\ json_file # <<>>
    /\ \E k \in DOMAIN json_file[1].country_tracks :
          LET e == json_file[1].country_tracks[k]
          IN  /\ e.tracks # Processed(json_file[1].tracks, e.code)
              /\ \E a, b \in DOMAIN e.tracks :
                    /\ a < b
                    /\ e.tracks[a].plays = e.tracks[b].plays
                    /\ e.tracks[a].urn # e.tracks[b].urn

----------------------------------------------------------------------------
\* C14: the Query Service is read-only: once the dashboard serves, no
\* request of any route, in any order, changes the loaded snapshot or the
\* coordinate table; in particular allCities adds no lat/lng to the
\* snapshot's own city records, so every request sees the snapshot the
\* first one saw.
C14_ReadOnlyQueries ==
    [][svc # "off" => (DATA' = DATA /\ coords' = coords)]_vars

\* allCities has answered from a loaded snapshot with an enriched copy of a
\* city whose own record has no coordinates
C14_Witness ==
    /\ svc = "main"
    /\ resp.route = "cities"
    /\ resp.status = 200
    /\ \E k \in DOMAIN DATA.aggregate.cities :
          /\ DATA.aggregate.cities[k].name \in DOMAIN coords
          /\ "lat" \in DOMAIN resp.body[k]
          /\ "lat" \notin DOMAIN DATA.aggregate.cities[k]
    /\ DATA = LoadedData(json_file)
    /\ coords = CITY_COORDS

====
